---- MODULE Spec2Model ----
(***************************************************************************)
(* Model of stratified_splits (src/sampling.py).                           *)
(*                                                                         *)
(* A split percentage is an exact rational <<n, d>> (d > 0); the products, *)
(* floors, ceilings and comparisons of the code are computed on these      *)
(* rationals; the lists tried hold split targets between 0 and 1.  Rows of *)
(* the DataFrame are identified by their index values 1..M.  A row carries *)
(* the value of the column named by class_column and the label             *)
(* DBSCAN().fit_predict gives it inside its class group.                   *)
(* The program modelled calls stratified_splits once and then once more on *)
(* the same DataFrame, keeping the first result for comparison.            *)
(***************************************************************************)
EXTENDS Integers, Sequences, FiniteSets

VARIABLES df, split_percentages, class_column, stratify_columns,
          pc, error, splits, total, classes_left, subgroups_left,
          indices, X, counts, idx, chosen_log, result, calls, prev

vars == <<df, split_percentages, class_column, stratify_columns,
          pc, error, splits, total, classes_left, subgroups_left,
          indices, X, counts, idx, chosen_log, result, calls, prev>>

\* Largest number of rows of the DataFrame.
MaxRecords == 4

\* Values of the class column, and labels DBSCAN may give (-1 is noise).
ClassLabels == {1, 2}
ClusterLabels == {-1, 0}

None == "None"

\* The split_percentages arguments tried; the last three do not sum to 1.
PercentageLists ==
    { << <<1, 1>> >>,
      << <<1, 2>>, <<1, 2>> >>,
      << <<2, 5>>, <<3, 5>> >>,
      << <<1, 10>>, <<9, 10>> >>,
      << <<1, 5>>, <<1, 5>>, <<3, 5>> >>,
      << <<1, 3>>, <<1, 3>>, <<1, 3>> >>,
      << <<1, 2>>, <<3, 5>> >>,
      << <<1, 3>>, <<1, 3>> >>,
      << >> }

----------------------------------------------------------------------------
\* Arithmetic on rationals

\* p * n for a rational p and an integer n
Times(p, n) == <<p[1] * n, p[2]>>

RatAdd(p, q) == <<p[1] * q[2] + q[1] * p[2], p[2] * q[2]>>

\* p < q
RatLess(p, q) == p[1] * q[2] < q[1] * p[2]

\* math.floor and math.ceil
Floor(p) == p[1] \div p[2]

Ceil(p) == -((-p[1]) \div p[2])

Min(a, b) == IF a < b THEN a ELSE b

RECURSIVE Sum(_)
\* sum(split_percentages), starting from 0
Sum(ps) == IF ps = << >> THEN <<0, 1>>
           ELSE RatAdd(Sum(SubSeq(ps, 1, Len(ps) - 1)), ps[Len(ps)])

\* variant: the entry check written as sum(split_percentages) >= 1
SumAtLeastOne(ps) == Sum(ps)[1] >= Sum(ps)[2]

\* sum(split_percentages) == 1
SumIsOne(ps) == Sum(ps)[1] = Sum(ps)[2]

RECURSIVE SumLen(_)
\* sum(len(s) for s in splits)
SumLen(ss) == IF ss = << >> THEN 0 ELSE Len(Head(ss)) + SumLen(Tail(ss))

----------------------------------------------------------------------------
\* DataFrame helpers

Range(s) == {s[i] : i \in DOMAIN s}

RECURSIVE SortedSeq(_)
\* the elements of a set of integers in increasing order
SortedSeq(S) == IF S = {} THEN << >>
                ELSE LET m == CHOOSE x \in S : \A y \in S : x <= y
                     IN <<m>> \o SortedSeq(S \ {m})

\* df[class_column] after lines 39-41: the constant 0 when no column is given
KlassOf(r) == IF class_column = None THEN 0 ELSE df[r].klass

\* group['stratsplit-stratum'] of lines 47-51
StratumOf(r) == IF stratify_columns # None THEN df[r].cluster ELSE 0

\* keys of df.groupby(class_column), in sorted order
ClassKeys == SortedSeq({KlassOf(r) : r \in DOMAIN df})

\* rows of one class group
Group(k) == {r \in DOMAIN df : KlassOf(r) = k}

\* the subgroups of group.groupby('stratsplit-stratum'), in sorted key order,
\* each as tuple(subgroup.index.tolist())
Subgroups(k) ==
    LET keys == SortedSeq({StratumOf(r) : r \in Group(k)})
    IN [j \in 1..Len(keys) |-> SortedSeq({r \in Group(k) : StratumOf(r) = keys[j]})]

\* random.sample(population, k): any k distinct elements in any order
\* (ValueError for k < 0 never arises with percentages >= 0)
Sample(population, k) ==
    {s \in [1..k -> Range(population)] : \A a, b \in 1..k : a # b => s[a] # s[b]}

\* variant: the chosen indices are not removed from the pool
WithoutKeepingChosen(ind, chosen) == ind

\* tuple(i for i in indices if i not in chosen_idx)
Without(ind, chosen) == SelectSeq(ind, LAMBDA i : i \notin Range(chosen))

RECURSIVE SumSeq(_)
SumSeq(s) == IF s = << >> THEN 0 ELSE Head(s) + SumSeq(Tail(s))

\* variant: sum(splits[i]) / total < split_percentages[i]
ShareBelowBySum(split, tot, p) == RatLess(<<SumSeq(split), tot>>, p)

\* variant: len(splits[i]) / total <= split_percentages[i]
ShareBelowOrEqual(split, tot, p) == ~RatLess(p, <<Len(split), tot>>)

\* len(splits[i]) / total < split_percentages[i]
ShareBelow(split, tot, p) == RatLess(<<Len(split), tot>>, p)

\* variant: the first stratum rounds up
CountsFirstCeil(n, ss, tot, ps) ==
    [i \in 1..(Len(ps) - 1) |->
        IF tot > 0
        THEN IF ShareBelow(ss[i], tot, ps[i]) THEN Ceil(Times(ps[i], n))
                                              ELSE Floor(Times(ps[i], n))
        ELSE Ceil(Times(ps[i], n))]

\* variant: every stratum after the first rounds up
CountsAlwaysCeil(n, ss, tot, ps) ==
    [i \in 1..(Len(ps) - 1) |->
        IF tot > 0 THEN Ceil(Times(ps[i], n)) ELSE Floor(Times(ps[i], n))]

\* variant: the count of split i is taken from the percentage of split i + 1
CountsShifted(n, ss, tot, ps) ==
    [i \in 1..(Len(ps) - 1) |->
        IF tot > 0
        THEN IF ShareBelow(ss[i], tot, ps[i]) THEN Ceil(Times(ps[i + 1], n))
                                              ELSE Floor(Times(ps[i + 1], n))
        ELSE Floor(Times(ps[i + 1], n))]

\* variant: a split below its target takes math.ceil(len(indices))
CountsCeilWholeStratum(n, ss, tot, ps) ==
    [i \in 1..(Len(ps) - 1) |->
        IF tot > 0
        THEN IF ShareBelow(ss[i], tot, ps[i]) THEN n
                                              ELSE Floor(Times(ps[i], n))
        ELSE Floor(Times(ps[i], n))]

\* lines 56-63: the count each non-remainder split asks of a subgroup of n rows
Counts(n, ss, tot, ps) ==
    [i \in 1..(Len(ps) - 1) |->
        IF tot > 0
        THEN IF ShareBelow(ss[i], tot, ps[i]) THEN Ceil(Times(ps[i], n))
                                              ELSE Floor(Times(ps[i], n))
        ELSE Floor(Times(ps[i], n))]

----------------------------------------------------------------------------
\* Inputs

\* Rows are numbered in the order the two groupby calls visit them.
Ordered(d) ==
    \A r \in DOMAIN d : \A s \in DOMAIN d :
        r < s => \/ d[r].klass < d[s].klass
                 \/ d[r].klass = d[s].klass /\ d[r].cluster <= d[s].cluster

DataFrames ==
    UNION { {d \in [1..m -> [klass : ClassLabels, cluster : ClusterLabels]] : Ordered(d)}
            : m \in 0..MaxRecords }

NoPrev == [result |-> None, stratify_columns |-> None, chosen_log |-> << >>]

Init ==
    /\ df \in DataFrames
    /\ split_percentages \in PercentageLists
    /\ class_column \in {None, "klass"}
    /\ stratify_columns \in {None, "features"}
    /\ pc = "entry"
    /\ error = None
    /\ splits = << >>
    /\ total = 0
    /\ classes_left = << >>
    /\ subgroups_left = << >>
    /\ indices = << >>
    /\ X = 0
    /\ counts = << >>
    /\ idx = 0
    /\ chosen_log = << >>
    /\ result = None
    /\ calls = 1
    /\ prev = NoPrev

----------------------------------------------------------------------------
\* Steps of stratified_splits

\* lines 35-45: the entry assertion, then the working copy, the class column,
\* the empty splits and total = 0
Enter ==
    /\ pc = "entry"
    /\ IF SumIsOne(split_percentages)
       THEN /\ pc' = "class_loop"
            /\ splits' = [i \in 1..Len(split_percentages) |-> << >>]
            /\ classes_left' = ClassKeys
            /\ error' = error
       ELSE /\ pc' = "failed"
            /\ error' = "All splits combined should be 100% of the data"
            /\ UNCHANGED <<splits, classes_left>>
    /\ UNCHANGED <<df, split_percentages, class_column, stratify_columns, total,
                   subgroups_left, indices, X, counts, idx, chosen_log, result,
                   calls, prev>>

\* lines 46-51: the next class group and its strata
NextClassGroup ==
    /\ pc = "class_loop"
    /\ classes_left # << >>
    /\ subgroups_left' = Subgroups(Head(classes_left))
    /\ classes_left' = Tail(classes_left)
    /\ pc' = "subgroup_loop"
    /\ UNCHANGED <<df, split_percentages, class_column, stratify_columns, error,
                   splits, total, indices, X, counts, idx, chosen_log, result,
                   calls, prev>>

\* lines 53-63: the next subgroup, its indices and its counts
BeginSubgroup ==
    /\ pc = "subgroup_loop"
    /\ subgroups_left # << >>
    /\ indices' = Head(subgroups_left)
    /\ subgroups_left' = Tail(subgroups_left)
    /\ X' = Len(Head(subgroups_left))
    /\ counts' = Counts(Len(Head(subgroups_left)), splits, total, split_percentages)
    /\ idx' = 1
    /\ pc' = "draw_loop"
    /\ UNCHANGED <<df, split_percentages, class_column, stratify_columns, error,
                   splits, total, classes_left, chosen_log, result, calls, prev>>

\* lines 65-68: one iteration of the loop over counts
Draw ==
    /\ pc = "draw_loop"
    /\ idx <= Len(counts)
    /\ \E chosen_idx \in Sample(indices, Min(Len(indices), counts[idx])) :
          /\ splits' = [splits EXCEPT ![idx] = @ \o chosen_idx]
          /\ indices' = Without(indices, chosen_idx)
          /\ chosen_log' = Append(chosen_log, chosen_idx)
    /\ idx' = idx + 1
    /\ UNCHANGED <<df, split_percentages, class_column, stratify_columns, pc,
                   error, total, classes_left, subgroups_left, X, counts, result,
                   calls, prev>>

\* lines 69-71: the rest goes to the last split; total grows by the subgroup
EndSubgroup ==
    /\ pc = "draw_loop"
    /\ idx > Len(counts)
    /\ splits' = [splits EXCEPT ![Len(splits)] = @ \o indices]
    /\ total' = total + X
    /\ pc' = IF subgroups_left # << >> THEN "subgroup_loop" ELSE "class_loop"
    /\ UNCHANGED <<df, split_percentages, class_column, stratify_columns, error,
                   classes_left, subgroups_left, indices, X, counts, idx,
                   chosen_log, result, calls, prev>>

\* lines 73-74: the final assertion and the return
Return ==
    /\ pc = "class_loop"
    /\ classes_left = << >>
    /\ IF SumLen(splits) = Cardinality(DOMAIN df)
       THEN /\ pc' = "returned"
            /\ result' = splits
            /\ error' = error
       ELSE /\ pc' = "failed"
            /\ error' = "All elements should be chosen"
            /\ result' = result
    /\ UNCHANGED <<df, split_percentages, class_column, stratify_columns, splits,
                   total, classes_left, subgroups_left, indices, X, counts, idx,
                   chosen_log, calls, prev>>

\* The caller calls stratified_splits again on the same DataFrame with the same
\* percentages and class column, with or without stratify_columns.
CallAgain ==
    /\ pc = "returned"
    /\ calls = 1
    /\ prev' = [result |-> result, stratify_columns |-> stratify_columns,
                chosen_log |-> chosen_log]
    /\ stratify_columns' \in {None, "features"}
    /\ calls' = 2
    /\ pc' = "entry"
    /\ splits' = << >>
    /\ total' = 0
    /\ classes_left' = << >>
    /\ subgroups_left' = << >>
    /\ indices' = << >>
    /\ X' = 0
    /\ counts' = << >>
    /\ idx' = 0
    /\ chosen_log' = << >>
    /\ result' = None
    /\ UNCHANGED <<df, split_percentages, class_column, error>>

Next ==
    \/ Enter
    \/ NextClassGroup
    \/ BeginSubgroup
    \/ Draw
    \/ EndSubgroup
    \/ Return
    \/ CallAgain

Spec == Init /\ [][Next]_vars

----------------------------------------------------------------------------
\* Vocabulary of the properties

N == Len(split_percentages)

Rows == DOMAIN df

M == Cardinality(Rows)

Abs(a) == IF a < 0 THEN -a ELSE a

\* number of entries of the list s that are rows of S
CountIn(s, S) == Cardinality({j \in DOMAIN s : s[j] \in S})

RECURSIVE Occurrences(_, _)
\* number of entries equal to r in all the lists of ss together
Occurrences(ss, r) ==
    IF ss = << >> THEN 0 ELSE CountIn(Head(ss), {r}) + Occurrences(Tail(ss), r)

Classes == Range(ClassKeys)

\* the strata of the current call, as sets of rows
StrataOf(k) == {Range(t) : t \in Range(Subgroups(k))}

AllStrata == UNION {StrataOf(k) : k \in Classes}

\* sub-clusters the clustering step finds in class k
ClustersOf(k) == {df[r].cluster : r \in Group(k)}

\* max(1, N - 1)
PerStratumSlack == IF N > 2 THEN N - 1 ELSE 1

RECURSIVE SumOver(_, _)
SumOver(S, f) == IF S = {} THEN 0
                 ELSE LET x == CHOOSE y \in S : TRUE
                      IN f[x] + SumOver(S \ {x}, f)

----------------------------------------------------------------------------
\* C1: the returned splits together hold exactly M entries, every row index
\* occurs exactly once across all of them, and the final assertion
\* 'All elements should be chosen' never fails.
C1_CompleteAndDisjoint ==
    /\ error # "All elements should be chosen"
    /\ pc = "returned" =>
          /\ SumLen(result) = M
          /\ \A r \in Rows : Occurrences(result, r) = 1

C1_Witness ==
    /\ pc = "returned"
    /\ M = MaxRecords
    /\ N = 3
    /\ Cardinality(AllStrata) >= 3
    /\ \A i \in 1..N : result[i] # << >>

\* C2: with class_column=None and stratify_columns=None the dataset is one
\* stratum, every non-remainder split i gets floor(percentage_i * M) rows and
\* the last split gets the rest.
C2_SingleStratumSizes ==
    (pc = "returned" /\ class_column = None /\ stratify_columns = None) =>
        /\ M > 0 => AllStrata = {Rows}
        /\ Len(chosen_log) = (IF M > 0 THEN N - 1 ELSE 0)
        /\ \A i \in 1..(N - 1) :
              Len(result[i]) = Floor(Times(split_percentages[i], M))
        /\ Len(result[N]) =
              M - SumOver(1..(N - 1),
                          [i \in 1..(N - 1) |-> Floor(Times(split_percentages[i], M))])

C2_Witness ==
    /\ pc = "returned"
    /\ class_column = None
    /\ stratify_columns = None
    /\ M = MaxRecords
    /\ N = 3
    /\ Len(result[1]) < Ceil(Times(split_percentages[1], M))

\* C3 (as stated): for every class c and every split i, the remainder split
\* included, the number of class-c rows in split i differs from
\* percentage_i * |c| by at most one row per stratum of class c.
C3_Original ==
    pc = "returned" =>
        \A k \in Classes : \A i \in 1..N :
            Abs(CountIn(result[i], Group(k)) * split_percentages[i][2]
                - split_percentages[i][1] * Cardinality(Group(k)))
              <= Len(Subgroups(k)) * split_percentages[i][2]

\* C3 (amended): the number of class-c rows in split i differs from
\* percentage_i * |c| by at most max(1, N - 1) rows per stratum of class c.
C3_ClassPreservation ==
    pc = "returned" =>
        \A k \in Classes : \A i \in 1..N :
            Abs(CountIn(result[i], Group(k)) * split_percentages[i][2]
                - split_percentages[i][1] * Cardinality(Group(k)))
              <= PerStratumSlack * Len(Subgroups(k)) * split_percentages[i][2]

C3_Witness ==
    /\ pc = "returned"
    /\ N = 3
    /\ Cardinality(Classes) = 2
    /\ \E k \in Classes :
          Abs(CountIn(result[N], Group(k)) * split_percentages[N][2]
              - split_percentages[N][1] * Cardinality(Group(k)))
            > Len(Subgroups(k)) * split_percentages[N][2]

\* the two calls were made one with and one without stratify_columns
WithAndWithout ==
    /\ pc = "returned"
    /\ calls = 2
    /\ prev.stratify_columns # stratify_columns

\* |count of class k in split i with - count without| 
ClassCountGap(k, i) ==
    Abs(CountIn(result[i], Group(k)) - CountIn(prev.result[i], Group(k)))

\* C4 (as stated): with stratify_columns every split has the same size, and
\* the same number of rows of every class, as without stratify_columns.
C4_Original ==
    WithAndWithout =>
        \A i \in 1..N :
            /\ Len(result[i]) = Len(prev.result[i])
            /\ \A k \in Classes : ClassCountGap(k, i) = 0

\* C4 (amended): with stratify_columns the number of rows of class c in a
\* split differs from the number without stratify_columns by less than
\* (S_c + 1) * max(1, N - 1), S_c the number of sub-clusters of class c, and
\* the size of a split by less than the sum of these bounds over the classes;
\* the counts are the same when every class is a single sub-cluster.
C4_StratifyColumnsGap ==
    WithAndWithout =>
        \A i \in 1..N :
            /\ \A k \in Classes :
                  /\ ClassCountGap(k, i)
                        < (Cardinality(ClustersOf(k)) + 1) * PerStratumSlack
                  /\ (\A c \in Classes : Cardinality(ClustersOf(c)) = 1)
                        => ClassCountGap(k, i) = 0
            /\ Classes # {} =>
                  Abs(Len(result[i]) - Len(prev.result[i]))
                    < SumOver(Classes, [k \in Classes |->
                          (Cardinality(ClustersOf(k)) + 1) * PerStratumSlack])

C4_Witness ==
    /\ WithAndWithout
    /\ \E i \in 1..N : Len(result[i]) # Len(prev.result[i])

\* C5: a call whose percentages do not sum to 1 fails at entry: no stratum is
\* processed, no index is sampled, and no result is returned.
C5_InvalidPercentagesRejected ==
    ~(Sum(split_percentages)[1] = Sum(split_percentages)[2]) =>
        /\ pc \in {"entry", "failed"}
        /\ pc = "failed" => error = "All splits combined should be 100% of the data"
        /\ splits = << >>
        /\ total = 0
        /\ chosen_log = << >>
        /\ result = None
        /\ calls = 1

C5_Witness ==
    /\ pc = "failed"
    /\ N = 2
    /\ M = MaxRecords
    /\ Sum(split_percentages)[1] > Sum(split_percentages)[2]

\* C6: a call on an empty dataset with valid percentages fails and does not
\* return a list of splits.
C6_EmptyDatasetFails ==
    (M = 0 /\ SumIsOne(split_percentages)) => pc # "returned"

\* the two calls were made with the same arguments
SameArguments ==
    /\ pc = "returned"
    /\ calls = 2
    /\ prev.stratify_columns = stratify_columns

\* C7: two calls with the same arguments in which the sampler makes the same
\* choices return identical splits; with different choices every split has
\* the same size and holds the same number of rows of every stratum.
C7_Determinism ==
    SameArguments =>
        /\ chosen_log = prev.chosen_log => result = prev.result
        /\ \A i \in 1..N :
              /\ Len(result[i]) = Len(prev.result[i])
              /\ \A t \in AllStrata :
                    CountIn(result[i], t) = CountIn(prev.result[i], t)

C7_Witness ==
    /\ SameArguments
    /\ Cardinality(AllStrata) >= 2
    /\ chosen_log # prev.chosen_log
    /\ \A i \in 1..N : Range(result[i]) # Range(prev.result[i])

AllocationCount(i) ==
    IF total = 0 \/ ~(Len(splits[i]) * split_percentages[i][2]
                        < split_percentages[i][1] * total)
    THEN (split_percentages[i][1] * X) \div split_percentages[i][2]
    ELSE -((-(split_percentages[i][1] * X)) \div split_percentages[i][2])

\* one iteration for a non-remainder split
DrawStep == pc = "draw_loop" /\ idx <= Len(counts) /\ idx' = idx + 1

\* the step that ends a stratum
RemainderStep == pc = "draw_loop" /\ idx > Len(counts) /\ pc' # "draw_loop"

\* C9: split i of a stratum of X rows receives min(remaining, c_i) rows, c_i
\* the floor of percentage_i * X if T = 0 or the running share is at or above
\* percentage_i and the ceiling if T > 0 and the share is strictly below; the
\* count is never negative nor more than what remains, and the rows left
\* after the last non-remainder split go to the remainder split.
C9_AllocationStep ==
    [][ /\ DrawStep =>
            LET k == Len(splits'[idx]) - Len(splits[idx])
            IN /\ k = Min(Len(indices), AllocationCount(idx))
               /\ k >= 0
               /\ k <= Len(indices)
               /\ Len(indices') = Len(indices) - k
               /\ Range(splits'[idx]) \ Range(splits[idx]) \subseteq Range(indices)
               /\ \A j \in 1..N : j # idx => splits'[j] = splits[j]
        /\ RemainderStep =>
            /\ splits'[N] = splits[N] \o indices
            /\ \A j \in 1..(N - 1) : splits'[j] = splits[j]
      ]_vars

C9_Witness ==
    /\ pc = "draw_loop"
    /\ total > 0
    /\ idx = 3
    /\ counts[1] > (split_percentages[1][1] * X) \div split_percentages[1][2]
    /\ indices = << >>
    /\ counts[2] > 0

\* C10: after each stratum, with T rows processed, every non-remainder split
\* i holds strictly fewer than percentage_i * T + 1 rows.
C10_NoOvershoot ==
    pc \in {"class_loop", "subgroup_loop", "returned"} =>
        \A i \in 1..(N - 1) :
            Len(splits[i]) * split_percentages[i][2]
              < split_percentages[i][1] * total + split_percentages[i][2]

C10_Witness ==
    /\ pc = "subgroup_loop"
    /\ total = 3
    /\ N = 2
    /\ Len(splits[1]) * split_percentages[1][2] > split_percentages[1][1] * total

====
